---- MODULE Spec2Model ----
(***************************************************************************)
(* FastSyncingEngine (substrate/client/network/sync/src/fast_sync_engine.rs) *)
(* as a state machine: the `run` loop, the two event handlers it selects   *)
(* over, and the dispatch of the strategy's actions.  The sync strategy,   *)
(* the pending-response tracker, the network service and the import queue  *)
(* are collaborators; their calls are recorded in observation variables.   *)
(***************************************************************************)
EXTENDS Bags, FiniteSets, Integers, Sequences, TLC

\* ---------------------------------------------------------------- bounds
\* Longest action sequence one strategy poll yields.
MaxBatch == 2
\* Most entries the pending-response tracker holds at once.
MaxPending == 2

\* ------------------------------------------------------------ value sets
Peers == {"P1", "P2"}
PeerInfos == {"full", "light"}
Origins == {"NetworkInitialSync", "Own"}

\* fn new: generate_protocol_name(genesis_hash, fork_id)
state_request_protocol_name == "/genesis/state/2"

None == <<>>
Some(v) == <<v>>

\* sc_network::ReputationChange: Rep::new(value, reason), Rep::new_fatal(reason)
Rep(value, reason) == [value |-> value, reason |-> reason]
RepFatal(reason) == [value |-> -2147483647 - 1, reason |-> reason]

\* mod rep
BAD_MESSAGE == Rep(-(2 ^ 12), "Bad message")
BAD_PROTOCOL == RepFatal("Unsupported protocol")
REFUSED == Rep(-(2 ^ 10), "Request refused")
TIMEOUT == Rep(-(2 ^ 10), "Request timeout")

\* Reputation changes a strategy attaches to a BadPeer.
StrategyReps == {Rep(-(2 ^ 29), "Bad state"), Rep(-(2 ^ 10), "Request timeout")}

\* ------------------------------------------------------- codec boundary
\* OpaqueStateRequest: a type-erased box; `ty` is the concrete type it holds.
OpaqueRequests ==
    { [ty |-> "StateRequest", block |-> 7], [ty |-> "BlockRequest", block |-> 7] }

\* StateRequest::encode_to_vec: field 1 (`block`, length-delimited), key 0x0a.
encode_to_vec(request) == <<10, 1, request.block>>

\* fn encode_state_request: downcast_ref::<StateRequest>() then encode.
encode_state_request(request) ==
    IF request.ty = "StateRequest"
    THEN [ok |-> TRUE, data |-> encode_to_vec(request)]
    ELSE [ok |-> FALSE, data |-> <<>>]

\* Response payloads peers put on the wire.
WireResponses == { <<>>, <<10, 1, 5>>, <<10, 2, 5>>, <<255>> }

\* StateResponse::decode: a sequence of length-delimited fields with key
\* 0x0a (`entries`) or 0x12 (`proof`); anything else, or a truncated field,
\* is a decode error.
DecodeError == [ok |-> FALSE, fields |-> <<>>]

RECURSIVE DecodeFields(_)
DecodeFields(bytes) ==
    IF bytes = <<>> THEN [ok |-> TRUE, fields |-> <<>>]
    ELSE IF Len(bytes) < 2 \/ bytes[1] \notin {10, 18} THEN DecodeError
    ELSE IF Len(bytes) < 2 + bytes[2] THEN DecodeError
    ELSE LET rest == DecodeFields(SubSeq(bytes, 3 + bytes[2], Len(bytes)))
         IN  IF ~rest.ok THEN DecodeError
             ELSE [ok |-> TRUE,
                   fields |-> <<[key |-> bytes[1],
                                 val |-> SubSeq(bytes, 3, 2 + bytes[2])]>> \o rest.fields]

\* fn decode_state_response
decode_state_response(response) ==
    [ok |-> DecodeFields(response).ok, proto |-> DecodeFields(response).fields]

\* ------------------------------------------------------ strategy actions
\* enum StateStrategyAction
SendStateRequest(peer_id, request) ==
    [type |-> "SendStateRequest", peer_id |-> peer_id, request |-> request]
DropPeer(peer_id, r) == [type |-> "DropPeer", peer_id |-> peer_id, rep |-> r]
ImportBlocks(origin, blocks) ==
    [type |-> "ImportBlocks", origin |-> origin, blocks |-> blocks]
Finished == [type |-> "Finished"]

BlockBatches == { <<>>, <<"b2">>, <<"b1", "b2", "b3">> }

StrategyActions ==
    {SendStateRequest(p, r) : p \in Peers, r \in OpaqueRequests}
    \cup {DropPeer(p, r) : p \in Peers, r \in StrategyReps}
    \cup {ImportBlocks(o, bs) : o \in Origins, bs \in BlockBatches}
    \cup {Finished}

SeqsUpTo(S, n) == UNION {[1..k -> S] : k \in 0..n}

\* ---------------------------------------------------------- network calls
\* NetworkServiceHandle::report_peer / disconnect_peer / start_request
report_peer(peer_id, r) == [op |-> "report_peer", peer |-> peer_id, rep |-> r]
disconnect_peer(peer_id, protocol) ==
    [op |-> "disconnect_peer", peer |-> peer_id, protocol |-> protocol]
start_request(peer_id, protocol, data, if_disconnected) ==
    [op |-> "start_request", peer |-> peer_id, protocol |-> protocol,
     data |-> data, if_disconnected |-> if_disconnected]

\* ------------------------------------------------------- response events
\* sc_network::RequestFailure, with libp2p's OutboundFailure inlined.
RequestFailures ==
    { "Network(Timeout)", "Network(UnsupportedProtocols)", "Network(DialFailure)",
      "Network(ConnectionClosed)", "Refused", "NotConnected",
      "UnknownProtocol", "Obsolete" }

\* Result<Result<(Vec<u8>, ProtocolName), RequestFailure>, oneshot::Canceled>
Responses ==
    {[tag |-> "Ok", bytes |-> b] : b \in WireResponses}
    \cup {[tag |-> "Failure", e |-> e] : e \in RequestFailures}
    \cup {[tag |-> "Canceled"]}

\* enum PeerRequest (the Block variant's payload is not modelled)
PeerRequests == {"Block", "State", "WarpProof"}

ResponseEvent(peer_id, request, response) ==
    [peer_id |-> peer_id, request |-> request, response |-> response]

\* ---------------------------------------------- pending-response tracker
\* PendingResponses: a bag of entries (peer, request kind, pending result).
\* `tx` says where the sender half of the entry's oneshot channel went:
\* handed to the network service with the request, or dropped unsent.
\* `stale` is history: the entry was in the tracker when a DropPeer for its
\* peer had been processed.
PendingEntry(peer_id, request, tx) ==
    [peer_id |-> peer_id, request |-> request, tx |-> tx, stale |-> FALSE]

\* PendingResponses::insert
PendingInsert(pr, peer_id, request, tx) ==
    pr (+) SetToBag({PendingEntry(peer_id, request, tx)})

\* PendingResponses::remove
PendingRemove(pr, peer_id) ==
    [e \in {x \in DOMAIN pr : x.peer_id # peer_id} |-> pr[e]]

\* Outcomes an entry's pending result can resolve to: a dropped sender can
\* only cancel it; the network service can answer, fail or drop it.
Outcomes(entry) ==
    IF entry.tx = "dropped" THEN {[tag |-> "Canceled"]} ELSE Responses

PendingFor(pr, peer_id) == {e \in BagToSet(pr) : e.peer_id = peer_id}

\* History of a processed DropPeer: what is left of the peer's entries in
\* the tracker `pr` is marked as predating the drop.
PredatesDrop(pr, peer_id) ==
    LET marked(e) == IF e.peer_id = peer_id THEN [e EXCEPT !.stale = TRUE] ELSE e
        count(m, e) == IF e \in DOMAIN pr /\ marked(e) = m THEN pr[e] ELSE 0
    IN  [m \in {marked(e) : e \in DOMAIN pr} |->
            count(m, [m EXCEPT !.stale = FALSE]) + count(m, [m EXCEPT !.stale = TRUE])]

\* ------------------------------------------------------------------ state
VARIABLES
    pc,                 \* position of `run`
    syncing_started,    \* self.syncing_started is Some
    peers,              \* self.peers: PeerId -> Peer
    pending_responses,  \* self.pending_responses
    last_block,         \* self.last_block: Option<IncomingBlock>
    strategy,           \* self.strategy: the actions it has queued
    actions,            \* process_strategy_actions: actions still to process
    emitted,            \* the sequence the poll in progress collected
    applied,            \* the actions of it processed so far
    event,              \* the external event this iteration handled (for a
                        \* response, with `tx` and `stale` of the entry it resolved)
    net,                \* network-service calls of the handler or batch in progress
    mark,               \* length of `net` before the last processed action
    strategy_calls,     \* on_state_response calls of the handler in progress
    replies,            \* replies sent on command reply channels by that handler
    imports,            \* import_blocks calls the import queue received
    import_queue_lock,  \* holder of the Mutex around the import queue
    result              \* what `run` returned

vars == <<pc, syncing_started, peers, pending_responses, last_block, strategy,
          actions, emitted, applied, event, net, mark, strategy_calls, replies,
          imports, import_queue_lock, result>>

NoEvent == [type |-> "None"]
Running == [tag |-> "Running"]
Ok(v) == [tag |-> "Ok", value |-> v]
Err(e) == [tag |-> "Err", error |-> e]
NoFurtherActions == "Backend(Fast sync failed - no further actions.)"

\* struct Peer
Peer(info) == [info |-> info, known_blocks |-> {}]

\* fn new: the fields of Self, for a given peer map and tracker
InitState(ps, pr) ==
    /\ pc = "start"
    /\ syncing_started = FALSE
    /\ peers = ps
    /\ pending_responses = pr
    /\ last_block = None
    /\ strategy = [actions |-> <<>>]
    /\ actions = <<>>
    /\ emitted = <<>>
    /\ applied = <<>>
    /\ event = NoEvent
    /\ net = <<>>
    /\ mark = 0
    /\ strategy_calls = <<>>
    /\ replies = <<>>
    /\ imports = <<>>
    /\ import_queue_lock = "free"
    /\ result = Running

\* fn new: `pending_responses: PendingResponses::new()`
InitFields(ps) == InitState(ps, EmptyBag)

\* fn new: `peers: HashMap::new()`
Init == InitFields(<<>>)

\* fn run, before the loop
RunStart ==
    /\ pc = "start"
    /\ syncing_started' = TRUE
    /\ pc' = "select"
    /\ UNCHANGED <<peers, pending_responses, last_block, strategy, actions, emitted,
                   applied, event, net, mark, strategy_calls, replies, imports,
                   import_queue_lock, result>>

\* ------------------------------------------------------- control commands
\* enum ToServiceCommand; each carries the reply channel `tx`.
ServiceCommands == {"Status", "PeersInfo", "Start"}

\* StateStrategy::status: the strategy counts its own peers (the sync peer
\* it was constructed with).
strategy_status(st) ==
    [state |-> "Downloading", num_peers |-> 1, num_connected_peers |-> 1]

\* Mutation of service_reply: the status goes out as the strategy made it.
service_reply_mut(command, ps, st) ==
    CASE command = "Status" -> strategy_status(st)
      [] command = "PeersInfo" -> [peer_id \in DOMAIN ps |-> ps[peer_id].info]
      [] command = "Start" -> "()"

\* fn process_service_command: the value sent on the command's `tx`.
service_reply(command, ps, st) ==
    CASE command = "Status" ->
            [strategy_status(st) EXCEPT !.num_connected_peers = Cardinality(DOMAIN ps)]
      [] command = "PeersInfo" -> [peer_id \in DOMAIN ps |-> ps[peer_id].info]
      [] command = "Start" -> "()"

\* Mutation of service_sends: Start is not acknowledged.
service_sends_mut(command, ps, st) ==
    IF command = "Start" THEN <<>>
    ELSE <<[tx |-> command, value |-> service_reply(command, ps, st)]>>

\* fn process_service_command: the sends it makes, as (channel, value) pairs.
service_sends(command, ps, st) ==
    <<[tx |-> command, value |-> service_reply(command, ps, st)]>>

\* Mutation of process_service_command: Start also resets the tracker.
process_service_command_mut(command) ==
    /\ pc = "select"
    /\ replies' = service_sends(command, peers, strategy)
    /\ event' = [type |-> "Command", command |-> command]
    /\ net' = <<>>
    /\ mark' = 0
    /\ strategy_calls' = <<>>
    /\ emitted' = <<>>
    /\ applied' = <<>>
    /\ pc' = "poll"
    /\ pending_responses' = IF command = "Start" THEN EmptyBag ELSE pending_responses
    /\ UNCHANGED <<syncing_started, peers, last_block, strategy,
                   actions, imports, import_queue_lock, result>>

\* run: select! arm `service_rx.select_next_some()` -> process_service_command
process_service_command(command) ==
    /\ pc = "select"
    /\ replies' = service_sends(command, peers, strategy)
    /\ event' = [type |-> "Command", command |-> command]
    /\ net' = <<>>
    /\ mark' = 0
    /\ strategy_calls' = <<>>
    /\ emitted' = <<>>
    /\ applied' = <<>>
    /\ pc' = "poll"
    /\ UNCHANGED <<syncing_started, peers, pending_responses, last_block, strategy,
                   actions, imports, import_queue_lock, result>>

\* -------------------------------------------------------- response events
\* Mutation of failure_calls: every failure only disconnects the peer.
failure_calls_mut(peer_id, e) ==
    <<disconnect_peer(peer_id, state_request_protocol_name)>>

\* fn process_response_event, arm Ok(Err(e)): the calls made for failure `e`.
failure_calls(peer_id, e) ==
    CASE e = "Network(Timeout)" ->
            <<report_peer(peer_id, TIMEOUT),
              disconnect_peer(peer_id, state_request_protocol_name)>>
      [] e = "Network(UnsupportedProtocols)" ->
            <<report_peer(peer_id, BAD_PROTOCOL),
              disconnect_peer(peer_id, state_request_protocol_name)>>
      [] e = "Network(DialFailure)" ->
            <<disconnect_peer(peer_id, state_request_protocol_name)>>
      [] e = "Refused" ->
            <<report_peer(peer_id, REFUSED),
              disconnect_peer(peer_id, state_request_protocol_name)>>
      [] e \in {"Network(ConnectionClosed)", "NotConnected"} ->
            <<disconnect_peer(peer_id, state_request_protocol_name)>>
      [] e \in {"UnknownProtocol", "Obsolete"} -> <<>>

\* fn process_response_event, arm Ok(Ok((resp, _))) for PeerRequest::State:
\* the calls made when `resp` does not decode.
decode_failure_calls(peer_id) ==
    <<report_peer(peer_id, BAD_MESSAGE),
      disconnect_peer(peer_id, state_request_protocol_name)>>

\* fn process_response_event: the network-service calls it makes.
response_calls(ev) ==
    CASE ev.response.tag = "Ok" ->
            IF ev.request = "State" /\ ~decode_state_response(ev.response.bytes).ok
            THEN decode_failure_calls(ev.peer_id)
            ELSE <<>>
      [] ev.response.tag = "Failure" -> failure_calls(ev.peer_id, ev.response.e)
      [] ev.response.tag = "Canceled" ->
            <<disconnect_peer(ev.peer_id, state_request_protocol_name)>>

\* Mutation of response_forwards: the response is forwarded undecoded.
response_forwards_mut(ev) ==
    IF ev.response.tag = "Ok" /\ ev.request = "State"
    THEN <<[peer_id |-> ev.peer_id, response |-> <<>>]>>
    ELSE <<>>

\* Mutation of response_forwards: the request kind is not looked at.
response_forwards_anykind(ev) ==
    IF ev.response.tag = "Ok" /\ decode_state_response(ev.response.bytes).ok
    THEN <<[peer_id |-> ev.peer_id,
            response |-> decode_state_response(ev.response.bytes).proto]>>
    ELSE <<>>

\* fn process_response_event: the strategy.on_state_response calls it makes.
response_forwards(ev) ==
    IF /\ ev.response.tag = "Ok"
       /\ ev.request = "State"
       /\ decode_state_response(ev.response.bytes).ok
    THEN <<[peer_id |-> ev.peer_id,
            response |-> decode_state_response(ev.response.bytes).proto]>>
    ELSE <<>>

\* fn process_response_event: whether it reaches a debug_assert!(false).
response_asserts(ev) ==
    ev.response.tag = "Failure" /\ ev.response.e \in {"UnknownProtocol", "Obsolete"}

\* StateStrategy::on_state_response: what the strategy may queue in reaction.
StrategyReactions(peer_id) ==
    { <<>>,
      <<DropPeer(peer_id, Rep(-(2 ^ 29), "Bad state"))>>,
      <<ImportBlocks("NetworkInitialSync", <<"b2">>)>> }

\* run: select! arm `pending_responses.select_next_some()` -> process_response_event
process_response_event(entry, response) ==
    LET ev == ResponseEvent(entry.peer_id, entry.request, response) IN
    /\ pc = "select"
    /\ pending_responses' = pending_responses (-) SetToBag({entry})
    /\ event' = [type |-> "Response", ev |-> ev, tx |-> entry.tx, stale |-> entry.stale]
    /\ net' = response_calls(ev)
    /\ mark' = 0
    /\ strategy_calls' = response_forwards(ev)
    /\ IF response_forwards(ev) # <<>>
       THEN \E reaction \in StrategyReactions(ev.peer_id) :
                strategy' = [strategy EXCEPT !.actions = @ \o reaction]
       ELSE strategy' = strategy
    /\ replies' = <<>>
    /\ emitted' = <<>>
    /\ applied' = <<>>
    \* debug_assert! panics in a build with debug assertions, is a no-op without
    /\ IF response_asserts(ev)
       THEN \E panics \in BOOLEAN :
                /\ pc' = IF panics THEN "panicked" ELSE "poll"
                /\ result' = IF panics THEN [tag |-> "Panic"] ELSE result
       ELSE pc' = "poll" /\ result' = result
    /\ UNCHANGED <<syncing_started, peers, last_block, actions, imports,
                   import_queue_lock>>

\* --------------------------------------------------------- strategy poll
NumSends(as) == Cardinality({i \in DOMAIN as : as[i].type = "SendStateRequest"})

\* StateStrategy::actions: drains what is queued, preceded by nothing and
\* followed by whatever the strategy decides to request now.
StrategyPolls(st) ==
    {st.actions \o extra : extra \in SeqsUpTo(StrategyActions, MaxBatch - Len(st.actions))}

\* Mutation of poll_check: the empty check is missing.
poll_check_mut(collected) == Running

\* fn process_strategy_actions: the `actions.is_empty()` check; Running
\* stands for "no early return".
poll_check(collected) ==
    IF collected = <<>> THEN Err(NoFurtherActions) ELSE Running

\* fn process_strategy_actions: `actions` collected and checked; on Err the
\* return of run, otherwise the start of the `for` loop (which, over no
\* actions, would fall through to Ok(Some(())) and the next select!).
process_strategy_actions ==
    /\ pc = "poll"
    /\ \E collected \in StrategyPolls(strategy) :
        /\ BagCardinality(pending_responses) + NumSends(collected) <= MaxPending
        /\ strategy' = [strategy EXCEPT !.actions = <<>>]
        /\ IF poll_check(collected).tag = "Err"
           THEN /\ pc' = "done"
                /\ result' = poll_check(collected)
                /\ UNCHANGED <<actions, emitted, applied, event, net, mark,
                               strategy_calls, replies>>
           ELSE /\ pc' = IF collected = <<>> THEN "select" ELSE "process"
                /\ actions' = collected
                /\ emitted' = collected
                /\ applied' = <<>>
                /\ event' = NoEvent
                /\ net' = <<>>
                /\ mark' = 0
                /\ strategy_calls' = <<>>
                /\ replies' = <<>>
                /\ result' = result
    /\ UNCHANGED <<syncing_started, peers, pending_responses, last_block, imports,
                   import_queue_lock>>

\* ------------------------------------------------------- action dispatch
\* Mutation of AfterAction: the loop stops after the first action.
AfterAction_mut == "select"

\* The `for action in actions` loop: after an arm that does not return, the
\* next action, or Ok(Some(())) and `continue` to the next select!.
AfterAction == IF Tail(actions) = <<>> THEN "select" ELSE "process"

\* fn send_state_request: where the oneshot sender `tx` ends up.
send_tx(request) ==
    IF encode_state_request(request).ok THEN "network" ELSE "dropped"

\* fn send_state_request: the entries it registers with the tracker.
send_inserts(peer_id, request) ==
    <<PendingEntry(peer_id, "State", send_tx(request))>>

\* fn send_state_request: the network-service calls it makes.
send_calls(peer_id, request) ==
    IF encode_state_request(request).ok
    THEN <<start_request(peer_id, state_request_protocol_name,
                         encode_state_request(request).data, "ImmediateError")>>
    ELSE <<>>

RECURSIVE InsertAll(_, _)
InsertAll(pr, entries) ==
    IF entries = <<>> THEN pr
    ELSE InsertAll(PendingInsert(pr, entries[1].peer_id, entries[1].request, entries[1].tx),
                   Tail(entries))

\* Mutation of send_state_request: the peer is entered into the peer map.
send_state_request_tracks ==
    /\ pc = "process"
    /\ Head(actions).type = "SendStateRequest"
    /\ LET peer_id == Head(actions).peer_id
           request == Head(actions).request
       IN  /\ pending_responses' =
                  InsertAll(pending_responses, send_inserts(peer_id, request))
           /\ net' = net \o send_calls(peer_id, request)
           /\ peers' = [p \in DOMAIN peers \cup {peer_id} |->
                           IF p \in DOMAIN peers THEN peers[p]
                           ELSE Peer(CHOOSE i \in PeerInfos : TRUE)]
    /\ mark' = Len(net)
    /\ applied' = Append(applied, Head(actions))
    /\ actions' = Tail(actions)
    /\ pc' = AfterAction
    /\ UNCHANGED <<syncing_started, last_block, strategy, emitted, event,
                   strategy_calls, replies, imports, import_queue_lock, result>>

\* arm StateStrategyAction::SendStateRequest -> fn send_state_request
send_state_request ==
    /\ pc = "process"
    /\ Head(actions).type = "SendStateRequest"
    /\ LET peer_id == Head(actions).peer_id
           request == Head(actions).request
       IN  /\ pending_responses' =
                  InsertAll(pending_responses, send_inserts(peer_id, request))
           /\ net' = net \o send_calls(peer_id, request)
    /\ mark' = Len(net)
    /\ applied' = Append(applied, Head(actions))
    /\ actions' = Tail(actions)
    /\ pc' = AfterAction
    /\ UNCHANGED <<syncing_started, peers, last_block, strategy, emitted, event,
                   strategy_calls, replies, imports, import_queue_lock, result>>

\* arm StateStrategyAction::DropPeer: the network-service calls it makes.
drop_calls(peer_id, r) ==
    <<disconnect_peer(peer_id, state_request_protocol_name), report_peer(peer_id, r)>>

\* Mutation of drop_pending: the peer's entries stay in the tracker.
drop_pending_mut(pr, peer_id) == pr

\* Mutation of drop_pending: one entry of the peer is removed, not all.
drop_pending_one(pr, peer_id) ==
    IF PendingFor(pr, peer_id) = {} THEN pr
    ELSE pr (-) SetToBag({CHOOSE e \in PendingFor(pr, peer_id) : TRUE})

\* arm StateStrategyAction::DropPeer: the tracker afterwards.
drop_pending(pr, peer_id) == PendingRemove(pr, peer_id)

\* arm StateStrategyAction::DropPeer
drop_peer ==
    /\ pc = "process"
    /\ Head(actions).type = "DropPeer"
    /\ pending_responses' =
           PredatesDrop(drop_pending(pending_responses, Head(actions).peer_id),
                        Head(actions).peer_id)
    /\ net' = net \o drop_calls(Head(actions).peer_id, Head(actions).rep)
    /\ mark' = Len(net)
    /\ applied' = Append(applied, Head(actions))
    /\ actions' = Tail(actions)
    /\ pc' = AfterAction
    /\ UNCHANGED <<syncing_started, peers, last_block, strategy, emitted, event,
                   strategy_calls, replies, imports, import_queue_lock, result>>

\* Mutation of first: the last block of the batch is recorded.
first_mut(blocks) == IF blocks = <<>> THEN None ELSE Some(blocks[Len(blocks)])

\* blocks.first().cloned()
first(blocks) == IF blocks = <<>> THEN None ELSE Some(blocks[1])

\* arm StateStrategyAction::ImportBlocks, up to `import_queue.lock().await`
import_blocks_begin ==
    /\ pc = "process"
    /\ Head(actions).type = "ImportBlocks"
    /\ last_block' = first(Head(actions).blocks)
    /\ mark' = Len(net)
    /\ applied' = Append(applied, Head(actions))
    /\ actions' = Tail(actions)
    /\ pc' = "lock"
    /\ UNCHANGED <<syncing_started, peers, pending_responses, strategy, emitted, event,
                   net, strategy_calls, replies, imports, import_queue_lock, result>>

\* `import_queue.lock().await` resolves: the engine holds the guard.
import_blocks_lock ==
    /\ pc = "lock"
    /\ import_queue_lock = "free"
    /\ import_queue_lock' = "engine"
    /\ pc' = "import"
    /\ UNCHANGED <<syncing_started, peers, pending_responses, last_block, strategy,
                   actions, emitted, applied, event, net, mark, strategy_calls,
                   replies, imports, result>>

\* ImportQueueService::import_blocks: the call the queue receives.
import_call(action) == [origin |-> action.origin, blocks |-> action.blocks]

\* Mutation of import_blocks_enqueue: the arm does not return, the loop
\* over the batch goes on.
import_blocks_enqueue_continues ==
    /\ pc = "import"
    /\ imports' = Append(imports, import_call(applied[Len(applied)]))
    /\ import_queue_lock' = "free"
    /\ pc' = IF actions = <<>> THEN "select" ELSE "process"
    /\ UNCHANGED <<syncing_started, peers, pending_responses, last_block, strategy,
                   actions, emitted, applied, event, net, mark, strategy_calls,
                   replies, result>>

\* Mutation of import_blocks_enqueue: the guard is kept past the statement.
import_blocks_enqueue_held ==
    /\ pc = "import"
    /\ imports' = Append(imports, import_call(applied[Len(applied)]))
    /\ pc' = "break"
    /\ UNCHANGED <<syncing_started, peers, pending_responses, last_block, strategy,
                   actions, emitted, applied, event, net, mark, strategy_calls,
                   replies, result, import_queue_lock>>

\* `.import_blocks(origin, blocks);` the guard dropped at the end of the
\* statement, then `return Ok(None)`, which makes run `break`.
import_blocks_enqueue ==
    /\ pc = "import"
    /\ imports' = Append(imports, import_call(applied[Len(applied)]))
    /\ import_queue_lock' = "free"
    /\ pc' = "break"
    /\ UNCHANGED <<syncing_started, peers, pending_responses, last_block, strategy,
                   actions, emitted, applied, event, net, mark, strategy_calls,
                   replies, result>>

\* fn run: `return Ok(self.last_block.take())`
run_return ==
    /\ pc = "break"
    /\ result' = Ok(last_block)
    /\ last_block' = None
    /\ pc' = "done"
    /\ UNCHANGED <<syncing_started, peers, pending_responses, strategy, actions,
                   emitted, applied, event, net, mark, strategy_calls, replies,
                   imports, import_queue_lock>>

\* Mutation of finished: Finished ends the loop like ImportBlocks does.
finished_terminal ==
    /\ pc = "process"
    /\ Head(actions).type = "Finished"
    /\ mark' = Len(net)
    /\ applied' = Append(applied, Head(actions))
    /\ actions' = Tail(actions)
    /\ pc' = "break"
    /\ UNCHANGED <<syncing_started, peers, pending_responses, last_block, strategy,
                   emitted, event, net, strategy_calls, replies, imports,
                   import_queue_lock, result>>

\* arm StateStrategyAction::Finished
finished ==
    /\ pc = "process"
    /\ Head(actions).type = "Finished"
    /\ mark' = Len(net)
    /\ applied' = Append(applied, Head(actions))
    /\ actions' = Tail(actions)
    /\ pc' = AfterAction
    /\ UNCHANGED <<syncing_started, peers, pending_responses, last_block, strategy,
                   emitted, event, net, strategy_calls, replies, imports,
                   import_queue_lock, result>>

\* Another sync engine sharing the import queue takes and releases its Mutex.
other_engine_lock ==
    /\ import_queue_lock = "free"
    /\ import_queue_lock' = "other"
    /\ UNCHANGED <<pc, syncing_started, peers, pending_responses, last_block,
                   strategy, actions, emitted, applied, event, net, mark,
                   strategy_calls, replies, imports, result>>

other_engine_unlock ==
    /\ import_queue_lock = "other"
    /\ import_queue_lock' = "free"
    /\ UNCHANGED <<pc, syncing_started, peers, pending_responses, last_block,
                   strategy, actions, emitted, applied, event, net, mark,
                   strategy_calls, replies, imports, result>>

Next ==
    \/ RunStart
    \/ \E command \in ServiceCommands : process_service_command(command)
    \/ \E entry \in BagToSet(pending_responses) :
           \E response \in Outcomes(entry) : process_response_event(entry, response)
    \/ process_strategy_actions
    \/ send_state_request
    \/ drop_peer
    \/ import_blocks_begin
    \/ import_blocks_lock
    \/ import_blocks_enqueue
    \/ run_return
    \/ finished
    \/ other_engine_lock
    \/ other_engine_unlock

Spec == Init /\ [][Next]_vars

TypeOK ==
    /\ pc \in {"start", "select", "poll", "process", "lock", "import", "break",
               "done", "panicked"}
    /\ BagCardinality(pending_responses) <= MaxPending
    /\ Len(emitted) <= MaxBatch

\* ---------------------------------------------------------------------
\* process_service_command as a function of the peer map: the handler
\* applied in engines whose peer map holds any entries.
PeerMaps == UNION {[S -> {Peer(i) : i \in PeerInfos}] : S \in SUBSET Peers}

InitPeers == \E ps \in PeerMaps : InitFields(ps)

NextCommands ==
    \/ RunStart
    \/ \E command \in ServiceCommands : process_service_command(command)
    \/ process_strategy_actions
    \/ finished

SpecCommands == InitPeers /\ [][NextCommands]_vars

\* ---------------------------------------------------------------------
\* process_response_event as a function of the response event: the handler
\* applied to events of every request kind, in engines whose tracker holds
\* entries of any kind.
PendingBags ==
    { InsertAll(EmptyBag, entries) :
        entries \in SeqsUpTo({PendingEntry(p, r, "network") :
                                 p \in Peers, r \in PeerRequests}, MaxPending) }

InitPending == \E pr \in PendingBags : InitState(<<>>, pr)

NextResponses ==
    \/ RunStart
    \/ \E entry \in BagToSet(pending_responses) :
           \E response \in Outcomes(entry) : process_response_event(entry, response)
    \/ process_strategy_actions
    \/ finished

SpecResponses == InitPending /\ [][NextResponses]_vars

\* The steps of this engine: Next without the other engine's.
EngineNext ==
    \/ RunStart
    \/ \E command \in ServiceCommands : process_service_command(command)
    \/ \E entry \in BagToSet(pending_responses) :
           \E response \in Outcomes(entry) : process_response_event(entry, response)
    \/ process_strategy_actions
    \/ send_state_request
    \/ drop_peer
    \/ import_blocks_begin
    \/ import_blocks_lock
    \/ import_blocks_enqueue
    \/ run_return
    \/ finished

\* ------------------------------------------------------------ properties
Last(s) == s[Len(s)]
IsImport(a) == a.type = "ImportBlocks"
Calls(op) == SelectSeq(net, LAMBDA c : c.op = op)
\* The network calls made by the action processed last.
LastCalls == SubSeq(net, mark + 1, Len(net))
\* Position of the first ImportBlocks of a sequence of actions, 0 if none.
FirstImport(as) ==
    IF \E i \in DOMAIN as : IsImport(as[i])
    THEN CHOOSE i \in DOMAIN as : IsImport(as[i]) /\ \A j \in 1..(i - 1) : ~IsImport(as[j])
    ELSE 0

\* C1: a strategy poll that collects no action ends run at once with the
\* "no further actions" error: from the poll the engine either starts on a
\* non-empty sequence or is done with that error, having made no network
\* call, no import call and no tracker change; once it has returned the
\* error it makes no call at all.
C1_EmptyPollIsFatal ==
    [][ /\ (pc = "poll" /\ pc' # "poll") =>
               \/ pc' = "process" /\ actions' # <<>>
               \/ /\ pc' = "done"
                  /\ result' = Err(NoFurtherActions)
                  /\ net' = net
                  /\ imports' = imports
                  /\ pending_responses' = pending_responses
        /\ (pc = "done" /\ result.tag = "Err") =>
               /\ pc' = "done"
               /\ net' = net
               /\ imports' = imports
               /\ pending_responses' = pending_responses ]_vars

\* C1 witness: run has returned the error while a request was outstanding.
C1_Witness ==
    /\ pc = "done"
    /\ result = Err(NoFurtherActions)
    /\ pending_responses # EmptyBag
    /\ imports = <<>>

\* C2: once the engine has reached an ImportBlocks action (the first of the
\* collected sequence), it only acquires the import queue, hands it that
\* action's whole batch with its origin in one import_blocks call, and
\* returns Ok with the first block of the batch (None for an empty batch);
\* a sequence holding an ImportBlocks never leads back to the select!.
C2_ImportBlocksTerminates ==
    /\ (pc \in {"select", "process"} /\ applied # <<>>) => ~IsImport(Last(applied))
    /\ pc = "select" => FirstImport(emitted) = 0
    /\ pc \in {"lock", "import", "break"} \/ (pc = "done" /\ result.tag = "Ok") =>
           LET i == FirstImport(emitted) IN
           /\ i > 0
           /\ applied = SubSeq(emitted, 1, i)
           /\ imports = IF pc \in {"lock", "import"} THEN <<>>
                        ELSE <<[origin |-> emitted[i].origin, blocks |-> emitted[i].blocks]>>
           /\ pc = "done" =>
                  result = Ok(IF emitted[i].blocks = <<>> THEN None
                              ELSE Some(emitted[i].blocks[1]))

\* C2 witness: run returned b1 after handing over [b1, b2, b3].
C2_Witness ==
    /\ pc = "done"
    /\ result = Ok(Some("b1"))
    /\ imports = <<[origin |-> "Own", blocks |-> <<"b1", "b2", "b3">>]>>

\* C3: right after a DropPeer for peer P is processed the tracker holds no
\* entry for P, and the action made exactly two network calls: a disconnect
\* of P on the state-request protocol and a report of P with the action's
\* reputation change.
C3_DropPeerEffects ==
    (pc \in {"select", "process"} /\ applied # <<>> /\ Last(applied).type = "DropPeer") =>
        LET a == Last(applied) IN
        /\ PendingFor(pending_responses, a.peer_id) = {}
        /\ Len(LastCalls) = 2
        /\ \E i \in 1..2 :
               LastCalls[i] = [op |-> "disconnect_peer", peer |-> a.peer_id,
                               protocol |-> state_request_protocol_name]
        /\ \E i \in 1..2 :
               LastCalls[i] = [op |-> "report_peer", peer |-> a.peer_id, rep |-> a.rep]

\* C3 witness: P1 dropped right after a request to it was registered, while
\* an entry for P2 stays.
C3_Witness ==
    /\ pc = "select"
    /\ Len(applied) = 2
    /\ applied[1].type = "SendStateRequest" /\ applied[1].peer_id = "P1"
    /\ applied[2].type = "DropPeer" /\ applied[2].peer_id = "P1"
    /\ PendingFor(pending_responses, "P1") = {}
    /\ PendingFor(pending_responses, "P2") # {}

\* ---------------------------------------------------------------------
\* The failure categories of the policy table that carry a policy.
C4_Categories ==
    {[tag |-> "Failure", e |-> e] :
        e \in RequestFailures \ {"UnknownProtocol", "Obsolete"}}
    \cup {[tag |-> "Canceled"]}

\* The table's reputation column.
C4_Penalty(response) ==
    IF response.tag = "Canceled" THEN <<>>
    ELSE CASE response.e = "Network(Timeout)" -> <<TIMEOUT>>
           [] response.e = "Network(UnsupportedProtocols)" -> <<BAD_PROTOCOL>>
           [] response.e = "Refused" -> <<REFUSED>>
           [] OTHER -> <<>>

\* C4: after a response event of a failure category of the policy table for
\* peer P, the handler has made exactly the row's calls: the row's penalty
\* (if any) reported for P and one disconnect of P on the state-request
\* protocol, nothing else, and no call of the strategy's response handler;
\* the unsupported-protocol penalty is the fatal one.
C4_FailurePolicy ==
    (event.type = "Response" /\ event.ev.response \in C4_Categories) =>
        LET P == event.ev.peer_id
            penalty == C4_Penalty(event.ev.response)
        IN  /\ Calls("report_peer") =
                   [i \in 1..Len(penalty) |->
                       [op |-> "report_peer", peer |-> P, rep |-> penalty[i]]]
            /\ Calls("disconnect_peer") =
                   <<[op |-> "disconnect_peer", peer |-> P,
                      protocol |-> state_request_protocol_name]>>
            /\ Len(net) = Len(penalty) + 1
            /\ \A i \in DOMAIN net : net[i].peer = P
            /\ strategy_calls = <<>>
            /\ BAD_PROTOCOL.value = -2147483647 - 1
            /\ TIMEOUT.value < 0 /\ REFUSED.value < 0

\* C4 witness: a request to P1 failed with "unsupported protocol".
C4_Witness ==
    /\ pc = "poll"
    /\ event.type = "Response"
    /\ event.ev = ResponseEvent("P1", "State",
                                [tag |-> "Failure", e |-> "Network(UnsupportedProtocols)"])
    /\ Len(net) = 2
    /\ PendingFor(pending_responses, "P1") = {}

DecodeFails(ev) ==
    /\ ev.response.tag = "Ok"
    /\ ev.request = "State"
    /\ ~decode_state_response(ev.response.bytes).ok

\* C5: after a State response from P that does not decode, the handler has
\* reported BAD_MESSAGE for P and requested a disconnect of P and has not
\* called on_state_response; on_state_response is called only for a State
\* response that decoded, once, with the responding peer's id.
C5_MalformedResponse ==
    /\ (event.type = "Response" /\ DecodeFails(event.ev)) =>
           /\ Calls("report_peer") =
                  <<[op |-> "report_peer", peer |-> event.ev.peer_id, rep |-> BAD_MESSAGE]>>
           /\ Calls("disconnect_peer") =
                  <<[op |-> "disconnect_peer", peer |-> event.ev.peer_id,
                     protocol |-> state_request_protocol_name]>>
           /\ strategy_calls = <<>>
    /\ strategy_calls # <<>> =>
           /\ event.type = "Response"
           /\ event.ev.response.tag = "Ok"
           /\ event.ev.request = "State"
           /\ decode_state_response(event.ev.response.bytes).ok
           /\ Len(strategy_calls) = 1
           /\ strategy_calls[1].peer_id = event.ev.peer_id

\* C5 witness: P1 answered with a truncated field.
C5_Witness ==
    /\ pc = "poll"
    /\ event.type = "Response"
    /\ event.ev = ResponseEvent("P1", "State", [tag |-> "Ok", bytes |-> <<10, 2, 5>>])
    /\ Len(net) = 2
    /\ strategy_calls = <<>>

PeerCausedFailure(ev) ==
    \/ DecodeFails(ev)
    \/ /\ ev.response.tag = "Failure"
       /\ ev.response.e \in {"Refused", "Network(Timeout)", "Network(UnsupportedProtocols)"}

\* C6: a peer-caused failure (malformed response, refusal, timeout,
\* unsupported protocol) is never fatal: in the iteration that handled it
\* the engine has penalised or disconnected the peer and run returns no error.
C6_PeerFailureNotFatal ==
    (event.type = "Response" /\ PeerCausedFailure(event.ev)) =>
        /\ net # <<>>
        /\ ~(pc = "done" /\ result.tag = "Err")

\* The (op, peer) pairs of the network calls one action makes when applied.
C7_Effect(a) ==
    CASE a.type = "SendStateRequest" ->
            IF a.request.ty = "StateRequest"
            THEN <<<<"start_request", a.peer_id>>>> ELSE <<>>
      [] a.type = "DropPeer" ->
            <<<<"disconnect_peer", a.peer_id>>, <<"report_peer", a.peer_id>>>>
      [] OTHER -> <<>>

RECURSIVE C7_Effects(_)
C7_Effects(as) == IF as = <<>> THEN <<>> ELSE C7_Effect(as[1]) \o C7_Effects(Tail(as))

C7_BatchPhase ==
    pc \in {"select", "process", "lock", "import", "break"}
    \/ (pc = "done" /\ result.tag = "Ok")

\* C7 as claimed: when the engine awaits the next event, or has returned,
\* every action of the collected sequence has been applied.
C7_AllActionsApplied ==
    pc \in {"select", "done"} => applied = emitted

\* C7 as amended: the actions applied are always a prefix of the collected
\* sequence and their network calls appear in that order; the engine is
\* back at the select! only with the whole sequence applied, and stops
\* early only at the first ImportBlocks, whose successors are discarded.
C7_ActionsInOrderUpToImport ==
    C7_BatchPhase =>
        /\ Len(applied) <= Len(emitted)
        /\ applied = SubSeq(emitted, 1, Len(applied))
        /\ [i \in DOMAIN net |-> <<net[i].op, net[i].peer>>] = C7_Effects(applied)
        /\ pc = "process" =>
               /\ actions = SubSeq(emitted, Len(applied) + 1, Len(emitted))
               /\ actions # <<>>
        /\ pc = "select" => applied = emitted
        /\ pc \notin {"select", "process"} =>
               applied = SubSeq(emitted, 1, FirstImport(emitted))

\* C7 witness: a two-action sequence applied in order before the select!.
C7_Witness ==
    /\ pc = "select"
    /\ Len(emitted) = 2
    /\ applied = emitted
    /\ applied[1].type = "DropPeer"
    /\ applied[2].type = "SendStateRequest"
    /\ Len(net) = 3
    /\ net[3].op = "start_request"

UnencodableSend(a) ==
    a.type = "SendStateRequest" /\ ~encode_state_request(a.request).ok

\* C8: a SendStateRequest whose request fails to encode is dropped alone: it
\* makes no network call and registers no entry, so the tracker never holds
\* an entry whose request was not issued, and no disconnect follows from it.
C8_EncodeFailureDropsAction ==
    /\ \A e \in BagToSet(pending_responses) : e.tx = "network"
    /\ (pc \in {"select", "process"} /\ applied # <<>> /\ UnencodableSend(Last(applied))) =>
           LastCalls = <<>>
    /\ (event.type = "Response" /\ event.tx = "dropped") => net = <<>>

\* C9: a command received by the select! has, before the strategy poll of
\* that iteration, exactly one reply, sent on its own channel; nothing else
\* is ever sent on a reply channel.
C9_CommandAnswered ==
    /\ event.type = "Command" =>
           /\ Len(replies) = 1
           /\ replies[1].tx = event.command
    /\ event.type # "Command" => replies = <<>>
    /\ (pc = "poll" /\ replies = <<>>) => event.type = "Response"

\* C9 witness: Start acknowledged, the poll still to come.
C9_Witness ==
    /\ pc = "poll"
    /\ event = [type |-> "Command", command |-> "Start"]
    /\ replies = <<[tx |-> "Start", value |-> "()"]>>

\* C10: the PeersInfo reply maps exactly the peers of the peer map, each to
\* its info; the Status reply is the strategy's status with
\* num_connected_peers set to the size of the peer map.
C10_RepliesSnapshotPeers ==
    (event.type = "Command" /\ replies # <<>>) =>
        LET v == replies[1].value IN
        /\ event.command = "PeersInfo" =>
               /\ DOMAIN v = DOMAIN peers
               /\ \A p \in DOMAIN peers : v[p] = peers[p].info
        /\ event.command = "Status" =>
               /\ v.num_connected_peers = Cardinality(DOMAIN peers)
               /\ v.state = strategy_status(strategy).state
               /\ v.num_peers = strategy_status(strategy).num_peers

\* C10 witness: PeersInfo answered while P1 and P2 are tracked.
C10_Witness ==
    /\ DOMAIN peers = {"P1", "P2"}
    /\ peers["P1"].info # peers["P2"].info
    /\ event = [type |-> "Command", command |-> "PeersInfo"]
    /\ replies # <<>>
    /\ DOMAIN replies[1].value = {"P1", "P2"}

\* C11: handling a control command leaves the peer map, the tracker, the
\* recorded last block, the strategy's queued actions and the import queue
\* as they were and makes no network call and no on_state_response call.
C11_CommandHasNoSideEffect ==
    [][ (pc = "select" /\ event'.type = "Command") =>
            /\ UNCHANGED <<peers, pending_responses, last_block, strategy, imports,
                           import_queue_lock, result>>
            /\ net' = <<>>
            /\ strategy_calls' = <<>> ]_vars

\* C11 witness: Start handled while a request is outstanding.
C11_Witness ==
    /\ pc = "poll"
    /\ event = [type |-> "Command", command |-> "Start"]
    /\ pending_responses # EmptyBag
    /\ net = <<>>

\* C12: every iteration handles one external event and then polls the
\* strategy once, whatever the handler did: the select! is left only for
\* the poll, with one event handled; a poll (a sequence collected, or the
\* "no further actions" return) happens only there; and nothing is polled
\* or sent before the first event.
C12_OneEventThenOnePoll ==
    [][ /\ (pc = "select" /\ pc' # "select") =>
               pc' = "poll" /\ event'.type \in {"Command", "Response"}
        /\ (pc = "poll" /\ pc' # "poll") =>
               /\ event.type \in {"Command", "Response"}
               /\ pc' \in {"process", "done"}
        /\ (pc # "poll" /\ pc' # pc) =>
               /\ strategy'.actions = <<>> \/ pc = "select"
               /\ emitted' = emitted \/ pc = "select"
               /\ ~(pc' = "done" /\ result'.tag = "Err")
        /\ pc = "start" => (pc' \in {"start", "select"} /\ net' = <<>> /\ emitted' = <<>>)
      ]_vars

\* C13: a handled response event consumes exactly one entry of the tracker,
\* the one it resolves, so no entry yields two events; and no entry that
\* was registered for a peer before a DropPeer for it was processed is
\* still in the tracker or resolved by a handled event afterwards.
C13_OneEventPerEntryNoneAfterDrop ==
    /\ [](\A e \in BagToSet(pending_responses) : ~e.stale)
    /\ [][ (pc = "select" /\ event'.type = "Response") =>
               /\ ~event'.stale
               /\ \E entry \in BagToSet(pending_responses) :
                      /\ entry = [peer_id |-> event'.ev.peer_id,
                                  request |-> event'.ev.request,
                                  tx |-> event'.tx, stale |-> event'.stale]
                      /\ pending_responses' = pending_responses (-) SetToBag({entry})
               /\ BagCardinality(pending_responses') =
                      BagCardinality(pending_responses) - 1 ]_vars

\* C13 witness: P1 dropped and then sent a new request, the only entry for
\* it in the tracker, while an older entry for P2 is still outstanding.
C13_Witness ==
    /\ pc = "select"
    /\ Len(applied) = 2
    /\ applied[1].type = "DropPeer" /\ applied[1].peer_id = "P1"
    /\ applied[2].type = "SendStateRequest" /\ applied[2].peer_id = "P1"
    /\ BagCardinality(pending_responses) = 2
    /\ Cardinality(PendingFor(pending_responses, "P1")) = 1
    /\ PendingFor(pending_responses, "P2") # {}

\* C14: once a response event reporting an UnknownProtocol or Obsolete
\* failure has been handled, no reputation change and no disconnect was
\* made for it and run has not crashed: it is at the strategy poll of the
\* iteration, or past it.
C14_AssertedFailureHarmless ==
    (event.type = "Response" /\ response_asserts(event.ev)) =>
        /\ net = <<>>
        /\ pc \in {"poll", "done"}
        /\ result.tag # "Panic"

\* C15: handling a successful response whose request kind is Block or
\* WarpProof makes no network call and no on_state_response call and leaves
\* the peer map, the recorded last block, the strategy's queue and the
\* import queue as they were; the tracker keeps every entry but the one
\* whose completion the event is; run goes on to the strategy poll.
C15_NonStateResponseIgnored ==
    [][ ( /\ pc = "select"
          /\ event'.type = "Response"
          /\ event'.ev.response.tag = "Ok"
          /\ event'.ev.request \in {"Block", "WarpProof"} ) =>
            /\ net' = <<>>
            /\ strategy_calls' = <<>>
            /\ UNCHANGED <<peers, last_block, strategy, imports, import_queue_lock,
                           result>>
            /\ pending_responses' = pending_responses (-)
                   SetToBag({[peer_id |-> event'.ev.peer_id,
                              request |-> event'.ev.request,
                              tx |-> event'.tx, stale |-> event'.stale]})
            /\ BagCardinality(pending_responses') =
                   BagCardinality(pending_responses) - 1
            /\ pc' = "poll" ]_vars

\* C15 witness: a Block response that would decode as a StateResponse has
\* been handled while another entry is outstanding.
C15_Witness ==
    /\ pc = "poll"
    /\ event.type = "Response"
    /\ event.ev.request = "Block"
    /\ event.ev.response.tag = "Ok"
    /\ decode_state_response(event.ev.response.bytes).ok
    /\ pending_responses # EmptyBag
    /\ net = <<>>
    /\ strategy_calls = <<>>

\* C16: wherever run is, other than awaiting an external event or the
\* import-queue lock, the engine can take its next step by itself; it holds
\* the lock exactly while at the enqueue, so never while awaiting an event;
\* and the import queue receives a batch only from the engine holding the
\* lock, as one call with the whole batch, the lock released with it.
C16_SuspendsAtSelectAndLockOnly ==
    /\ [](pc \in {"start", "poll", "process", "import", "break"} => ENABLED EngineNext)
    /\ [](import_queue_lock = "engine" <=> pc = "import")
    /\ [][ imports' # imports =>
               /\ pc = "import"
               /\ import_queue_lock = "engine"
               /\ import_queue_lock' = "free"
               /\ imports' = Append(imports, import_call(Last(applied))) ]_vars

\* C16 witness: the engine waits for the lock while another engine has it.
C16_Witness ==
    /\ pc = "lock"
    /\ import_queue_lock = "other"
    /\ ~ENABLED EngineNext
    /\ imports = <<>>

\* C17: the step that processes a Finished action leaves the peer map, the
\* tracker, the recorded last block, the strategy and the import queue as
\* they were, makes no network call and does not end run: it goes on to the
\* next action of the batch or, after the last, to awaiting an event; once
\* a batch of Finished actions only is processed, run awaits an event.
C17_FinishedIsNoOp ==
    /\ [][ ( /\ pc = "process"
             /\ Head(actions).type = "Finished"
             /\ applied' # applied ) =>
               /\ UNCHANGED <<peers, pending_responses, last_block, strategy, net,
                              imports, import_queue_lock, replies, result>>
               /\ pc' = IF Tail(actions) = <<>> THEN "select" ELSE "process"
               /\ actions' = Tail(actions) ]_vars
    /\ []( ( /\ emitted # <<>>
             /\ applied = emitted
             /\ \A i \in DOMAIN emitted : emitted[i].type = "Finished" ) =>
               (pc = "select" /\ result = Running) )

\* C17 witness: a batch of one Finished has been processed while a request
\* is outstanding, and run awaits the next event.
C17_Witness ==
    /\ pc = "select"
    /\ emitted = <<Finished>>
    /\ applied = emitted
    /\ pending_responses # EmptyBag
    /\ net = <<>>
    /\ imports = <<>>

C19_OnceAndFinal ==
    /\ [](Len(imports) <= 1)
    /\ [](pc = "done" => (result.tag = "Ok" <=> imports # <<>>))
    /\ [](result.tag = "Ok" => (pc = "done" /\ imports # <<>>))
    /\ [][ imports # <<>> =>
               /\ UNCHANGED <<imports, net, pending_responses, replies, strategy,
                              strategy_calls, emitted, applied, event>>
               /\ pc' \in {"break", "done"} ]_vars

\* C19 as stated: import_blocks is called at most once, run returns Ok iff
\* it was called, nothing follows the call, and the recorded last block is
\* None in every state before the call.
C19_LastBlockNoneBeforeImport ==
    /\ C19_OnceAndFinal
    /\ [](imports = <<>> => last_block = None)

\* C19 amended: import_blocks is called at most once, run returns Ok iff it
\* was called, nothing follows the call, and the recorded last block is
\* None in every state before the ImportBlocks action is processed; from
\* then until run returns it is the first block of that action's batch,
\* also while the engine still waits for the lock, before the call.
C19_LastBlockNoneBeforeImportAction ==
    /\ C19_OnceAndFinal
    /\ [](pc \in {"start", "select", "poll", "process"} => last_block = None)
    /\ [](pc \in {"lock", "import", "break"} =>
              /\ IsImport(Last(applied))
              /\ last_block = first(Last(applied).blocks))
    /\ [](pc = "done" => last_block = None)

\* C19 witness: run has returned Ok with the first block of a batch of
\* three, after one import_blocks call, a request still outstanding.
C19_Witness ==
    /\ pc = "done"
    /\ result = Ok(Some("b1"))
    /\ Len(imports) = 1
    /\ imports[1].blocks = <<"b1", "b2", "b3">>
    /\ last_block = None
    /\ pending_responses # EmptyBag

\* C20: in every state in which run has returned the "no further actions"
\* error, the tracker holds no outstanding entry.
C20_FatalOnlyWhenNothingOutstanding ==
    (pc = "done" /\ result = Err(NoFurtherActions)) => pending_responses = EmptyBag

====
